---- MODULE Spec2Model ----
(***************************************************************************)
(* Tic-tac-toe engine (game.py) and its Telegram handlers (bot.py).        *)
(*                                                                         *)
(* Spec     drives one TicTacToe instance directly through make_move and   *)
(*          bot_move with arbitrary arguments.                             *)
(* SpecCalls does the same within the board and remembers each call with   *)
(*          its arguments.                                                 *)
(* SpecLive is Spec with valid moves that keep coming (weak fairness).     *)
(* SpecBot  drives the registry `games` through tictactoe_command and      *)
(*          callback_handler, one chat session per behaviour.              *)
(* SpecChats does the same with several chats holding games at once.       *)
(***************************************************************************)
EXTENDS Integers, Sequences, FiniteSets, TLC

VARIABLES games, call, instances

vars == <<games, call, instances>>

\* ------------------------------------------------------------------ bounds
\* make_move is called with rows and columns in -OutOfRange .. 2+OutOfRange
OutOfRange == 1
\* at most this many TicTacToe instances are constructed in one behaviour
MaxInstances == 2

\* --------------------------------------------------------------- game.py
EMPTY == "EMPTY"
X == "X"
O == "O"
Cell == {EMPTY, X, O}

\* Python's None: as an Optional[Player] or Optional[Tuple] value, and as an
\* Optional[Cell] value or "no exception"
None == << >>
NoneCell == "None"
IndexError == "IndexError"

\* range(3)
Idx == 0 .. 2

WIN_LINES ==
    << << <<0, 0>>, <<0, 1>>, <<0, 2>> >>,
       << <<1, 0>>, <<1, 1>>, <<1, 2>> >>,
       << <<2, 0>>, <<2, 1>>, <<2, 2>> >>,
       << <<0, 0>>, <<1, 0>>, <<2, 0>> >>,
       << <<0, 1>>, <<1, 1>>, <<2, 1>> >>,
       << <<0, 2>>, <<1, 2>>, <<2, 2>> >>,
       << <<0, 0>>, <<1, 1>>, <<2, 2>> >>,
       << <<0, 2>>, <<1, 1>>, <<2, 0>> >> >>

Player(user_id, username, symbol) ==
    [user_id |-> user_id, username |-> username, symbol |-> symbol]

\* the dataclass defaults; id is the identity of the constructed object
TicTacToe(id) ==
    [id           |-> id,
     board        |-> [r \in Idx |-> [c \in Idx |-> EMPTY]],
     player_x     |-> None,
     player_o     |-> None,
     current_turn |-> X,
     is_vs_bot    |-> FALSE,
     game_over    |-> FALSE,
     winner       |-> NoneCell]

\* Python list indexing of a 3-element list: -3..-1 count from the end,
\* anything outside -3..2 raises IndexError
InRange(i) == i >= -3 /\ i <= 2
PyIndex(i) == IF i < 0 THEN i + 3 ELSE i

_check_winner(self, cell) ==
    \E k \in 1 .. Len(WIN_LINES) :
        \A j \in 1 .. 3 :
            self.board[WIN_LINES[k][j][1]][WIN_LINES[k][j][2]] = cell

\* the draw test with any() in place of all()
_check_draw_Any(self) ==
    \E r \in Idx : \E c \in Idx : self.board[r][c] # EMPTY

_check_draw(self) ==
    \A r \in Idx : \A c \in Idx : self.board[r][c] # EMPTY

\* what a call leaves behind: the object, the value returned, the exception raised
Return(self, ret) == [self |-> self, ret |-> ret, raised |-> NoneCell]
Raise(self, exc) == [self |-> self, ret |-> FALSE, raised |-> exc]

\* --- variants of make_move, each with one slip ---
Finish(placed, player_cell, turn) ==
    IF _check_winner(placed, player_cell)
    THEN Return([placed EXCEPT !.game_over = TRUE, !.winner = player_cell], TRUE)
    ELSE IF _check_draw(placed)
    THEN Return([placed EXCEPT !.game_over = TRUE, !.winner = NoneCell], TRUE)
    ELSE Return([placed EXCEPT !.current_turn = IF turn = X THEN O ELSE X], TRUE)

\* the cell is indexed before the terminal flag is looked at
make_move_IndexFirst(self, row, col, player_cell) ==
    IF ~InRange(row) \/ ~InRange(col)
    THEN Raise(self, IndexError)
    ELSE IF self.board[PyIndex(row)][PyIndex(col)] # EMPTY
    THEN Return(self, FALSE)
    ELSE IF self.game_over
    THEN Return(self, FALSE)
    ELSE IF player_cell # self.current_turn
    THEN Return(self, FALSE)
    ELSE Finish([self EXCEPT !.board[PyIndex(row)][PyIndex(col)] = player_cell],
                player_cell, self.current_turn)

\* the full board is tested before the winning lines
make_move_DrawFirst(self, row, col, player_cell) ==
    IF self.game_over
    THEN Return(self, FALSE)
    ELSE IF ~InRange(row) \/ ~InRange(col)
    THEN Raise(self, IndexError)
    ELSE IF self.board[PyIndex(row)][PyIndex(col)] # EMPTY
    THEN Return(self, FALSE)
    ELSE IF player_cell # self.current_turn
    THEN Return(self, FALSE)
    ELSE
      LET placed == [self EXCEPT !.board[PyIndex(row)][PyIndex(col)] = player_cell]
      IN  IF _check_draw(placed)
          THEN Return([placed EXCEPT !.game_over = TRUE, !.winner = NoneCell], TRUE)
          ELSE IF _check_winner(placed, player_cell)
          THEN Return([placed EXCEPT !.game_over = TRUE, !.winner = player_cell], TRUE)
          ELSE Return([placed EXCEPT !.current_turn =
                                  IF self.current_turn = X THEN O ELSE X], TRUE)

\* the occupied-cell test is missing
make_move_Overwrite(self, row, col, player_cell) ==
    IF self.game_over
    THEN Return(self, FALSE)
    ELSE IF ~InRange(row) \/ ~InRange(col)
    THEN Raise(self, IndexError)
    ELSE IF player_cell # self.current_turn
    THEN Return(self, FALSE)
    ELSE Finish([self EXCEPT !.board[PyIndex(row)][PyIndex(col)] = player_cell],
                player_cell, self.current_turn)

\* the turn test is missing
make_move_AnyMark(self, row, col, player_cell) ==
    IF self.game_over
    THEN Return(self, FALSE)
    ELSE IF ~InRange(row) \/ ~InRange(col)
    THEN Raise(self, IndexError)
    ELSE IF self.board[PyIndex(row)][PyIndex(col)] # EMPTY
    THEN Return(self, FALSE)
    ELSE Finish([self EXCEPT !.board[PyIndex(row)][PyIndex(col)] = player_cell],
                player_cell, self.current_turn)

\* the turn is never switched
make_move_NoFlip(self, row, col, player_cell) ==
    IF self.game_over
    THEN Return(self, FALSE)
    ELSE IF ~InRange(row) \/ ~InRange(col)
    THEN Raise(self, IndexError)
    ELSE IF self.board[PyIndex(row)][PyIndex(col)] # EMPTY
    THEN Return(self, FALSE)
    ELSE IF player_cell # self.current_turn
    THEN Return(self, FALSE)
    ELSE
      LET placed == [self EXCEPT !.board[PyIndex(row)][PyIndex(col)] = player_cell]
      IN  IF _check_winner(placed, player_cell)
          THEN Return([placed EXCEPT !.game_over = TRUE, !.winner = player_cell], TRUE)
          ELSE IF _check_draw(placed)
          THEN Return([placed EXCEPT !.game_over = TRUE, !.winner = NoneCell], TRUE)
          ELSE Return(placed, TRUE)

\* a draw records the last mover as the winner
make_move_DrawWinner(self, row, col, player_cell) ==
    IF self.game_over
    THEN Return(self, FALSE)
    ELSE IF ~InRange(row) \/ ~InRange(col)
    THEN Raise(self, IndexError)
    ELSE IF self.board[PyIndex(row)][PyIndex(col)] # EMPTY
    THEN Return(self, FALSE)
    ELSE IF player_cell # self.current_turn
    THEN Return(self, FALSE)
    ELSE
      LET placed == [self EXCEPT !.board[PyIndex(row)][PyIndex(col)] = player_cell]
      IN  IF _check_winner(placed, player_cell)
          THEN Return([placed EXCEPT !.game_over = TRUE, !.winner = player_cell], TRUE)
          ELSE IF _check_draw(placed)
          THEN Return([placed EXCEPT !.game_over = TRUE, !.winner = player_cell], TRUE)
          ELSE Return([placed EXCEPT !.current_turn =
                                  IF self.current_turn = X THEN O ELSE X], TRUE)

\* the turn is switched on every accepted move, also on the one that ends the game
make_move_AlwaysFlip(self, row, col, player_cell) ==
    IF self.game_over
    THEN Return(self, FALSE)
    ELSE IF ~InRange(row) \/ ~InRange(col)
    THEN Raise(self, IndexError)
    ELSE IF self.board[PyIndex(row)][PyIndex(col)] # EMPTY
    THEN Return(self, FALSE)
    ELSE IF player_cell # self.current_turn
    THEN Return(self, FALSE)
    ELSE
      LET placed == [self EXCEPT !.board[PyIndex(row)][PyIndex(col)] = player_cell,
                                 !.current_turn = IF self.current_turn = X THEN O ELSE X]
      IN  IF _check_winner(placed, player_cell)
          THEN Return([placed EXCEPT !.game_over = TRUE, !.winner = player_cell], TRUE)
          ELSE IF _check_draw(placed)
          THEN Return([placed EXCEPT !.game_over = TRUE, !.winner = NoneCell], TRUE)
          ELSE Return(placed, TRUE)

\* --- make_move ---
make_move(self, row, col, player_cell) ==
    IF self.game_over
    THEN Return(self, FALSE)
    ELSE IF ~InRange(row) \/ ~InRange(col)
    THEN Raise(self, IndexError)
    ELSE IF self.board[PyIndex(row)][PyIndex(col)] # EMPTY
    THEN Return(self, FALSE)
    ELSE IF player_cell # self.current_turn
    THEN Return(self, FALSE)
    ELSE
      LET placed == [self EXCEPT !.board[PyIndex(row)][PyIndex(col)] = player_cell]
      IN  IF _check_winner(placed, player_cell)
          THEN Return([placed EXCEPT !.game_over = TRUE, !.winner = player_cell], TRUE)
          ELSE IF _check_draw(placed)
          THEN Return([placed EXCEPT !.game_over = TRUE, !.winner = NoneCell], TRUE)
          ELSE Return([placed EXCEPT !.current_turn =
                                  IF self.current_turn = X THEN O ELSE X], TRUE)

get_current_player(self) ==
    IF self.current_turn = X THEN self.player_x ELSE self.player_o

get_winner_player(self) ==
    IF self.winner = X THEN self.player_x
    ELSE IF self.winner = O THEN self.player_o
    ELSE None

\* cells_in_line of the k-th winning line
cells_in_line(self, k) ==
    [j \in 1 .. 3 |-> self.board[WIN_LINES[k][j][1]][WIN_LINES[k][j][2]]]

\* list.count
count(seq, v) == Cardinality({j \in 1 .. Len(seq) : seq[j] = v})

\* list.index: position of the first occurrence
index(seq, v) == CHOOSE j \in 1 .. Len(seq) :
                    seq[j] = v /\ \A i \in 1 .. (j - 1) : seq[i] # v

LineMatches(self, k, cell) ==
    count(cells_in_line(self, k), cell) = 2 /\ count(cells_in_line(self, k), EMPTY) = 1

\* the scan keeps the last matching line instead of returning at the first
_find_winning_move_LastLine(self, cell) ==
    IF \E k \in 1 .. Len(WIN_LINES) : LineMatches(self, k, cell)
    THEN LET k == CHOOSE k \in 1 .. Len(WIN_LINES) :
                     /\ LineMatches(self, k, cell)
                     /\ \A i \in (k + 1) .. Len(WIN_LINES) : ~LineMatches(self, i, cell)
         IN  WIN_LINES[k][index(cells_in_line(self, k), EMPTY)]
    ELSE None

_find_winning_move(self, cell) ==
    IF \E k \in 1 .. Len(WIN_LINES) : LineMatches(self, k, cell)
    THEN LET k == CHOOSE k \in 1 .. Len(WIN_LINES) :
                     /\ LineMatches(self, k, cell)
                     /\ \A i \in 1 .. (k - 1) : ~LineMatches(self, i, cell)
         IN  WIN_LINES[k][index(cells_in_line(self, k), EMPTY)]
    ELSE None

corners == << <<0, 0>>, <<0, 2>>, <<2, 0>>, <<2, 2>> >>
edges == << <<0, 1>>, <<1, 0>>, <<1, 2>>, <<2, 1>> >>

\* the list is left in its written order
shuffle_Identity(seq) == {seq}

\* random.shuffle: every ordering of the list
shuffle(seq) ==
    {[j \in 1 .. Len(seq) |-> seq[p[j]]] :
        p \in {q \in [1 .. Len(seq) -> 1 .. Len(seq)] :
                 \A a, b \in 1 .. Len(seq) : a # b => q[a] # q[b]}}

\* the for loop over a list of cells: the first empty one, None if the loop falls through
FirstEmpty(self, seq) ==
    IF \E j \in 1 .. Len(seq) : self.board[seq[j][1]][seq[j][2]] = EMPTY
    THEN seq[CHOOSE j \in 1 .. Len(seq) :
                /\ self.board[seq[j][1]][seq[j][2]] = EMPTY
                /\ \A i \in 1 .. (j - 1) : self.board[seq[i][1]][seq[i][2]] # EMPTY]
    ELSE None

\* rules 1 and 2 in the wrong order: the block is tried before the win
bot_move_BlockFirst(self) ==
    IF self.game_over \/ self.current_turn # O
    THEN {None}
    ELSE IF _find_winning_move(self, X) # None
    THEN {_find_winning_move(self, X)}
    ELSE IF _find_winning_move(self, O) # None
    THEN {_find_winning_move(self, O)}
    ELSE IF self.board[1][1] = EMPTY
    THEN {<<1, 1>>}
    ELSE IF \E s \in shuffle(corners) : FirstEmpty(self, s) # None
    THEN {FirstEmpty(self, s) : s \in shuffle(corners)}
    ELSE {FirstEmpty(self, s) : s \in shuffle(edges)}

\* rules 3 and 4 in the wrong order: a corner is taken before the center
bot_move_CornerFirst(self) ==
    IF self.game_over \/ self.current_turn # O
    THEN {None}
    ELSE IF _find_winning_move(self, O) # None
    THEN {_find_winning_move(self, O)}
    ELSE IF _find_winning_move(self, X) # None
    THEN {_find_winning_move(self, X)}
    ELSE IF \E s \in shuffle(corners) : FirstEmpty(self, s) # None
    THEN {FirstEmpty(self, s) : s \in shuffle(corners)}
    ELSE IF self.board[1][1] = EMPTY
    THEN {<<1, 1>>}
    ELSE {FirstEmpty(self, s) : s \in shuffle(edges)}

\* the center is returned without looking whether it is empty
bot_move_CenterAlways(self) ==
    IF self.game_over \/ self.current_turn # O
    THEN {None}
    ELSE IF _find_winning_move(self, O) # None
    THEN {_find_winning_move(self, O)}
    ELSE IF _find_winning_move(self, X) # None
    THEN {_find_winning_move(self, X)}
    ELSE {<<1, 1>>}

\* rule 2 is missing: the opponent's open pair is not blocked
bot_move_NoBlock(self) ==
    IF self.game_over \/ self.current_turn # O
    THEN {None}
    ELSE IF _find_winning_move(self, O) # None
    THEN {_find_winning_move(self, O)}
    ELSE IF self.board[1][1] = EMPTY
    THEN {<<1, 1>>}
    ELSE IF \E s \in shuffle(corners) : FirstEmpty(self, s) # None
    THEN {FirstEmpty(self, s) : s \in shuffle(corners)}
    ELSE {FirstEmpty(self, s) : s \in shuffle(edges)}

\* the set of values bot_move can return, over the outcomes of the shuffles
bot_move(self) ==
    IF self.game_over \/ self.current_turn # O
    THEN {None}
    ELSE IF _find_winning_move(self, O) # None
    THEN {_find_winning_move(self, O)}
    ELSE IF _find_winning_move(self, X) # None
    THEN {_find_winning_move(self, X)}
    ELSE IF self.board[1][1] = EMPTY
    THEN {<<1, 1>>}
    ELSE IF \E s \in shuffle(corners) : FirstEmpty(self, s) # None
    THEN {FirstEmpty(self, s) : s \in shuffle(corners)}
    ELSE {FirstEmpty(self, s) : s \in shuffle(edges)}

\* ------------------------------------------------- direct calls on one game
Chats == {"private", "group"}

\* the arguments make_move is called with in Spec: the board's range widened
\* by OutOfRange on both sides
Args == (0 - OutOfRange) .. (2 + OutOfRange)

\* games[chat_id] = game
\* the assignment written as a rebinding of the whole dict to one entry
Store_Clear(dict, key, value) == [k \in {key} |-> value]

Store(dict, key, value) ==
    [k \in DOMAIN dict \cup {key} |-> IF k = key THEN value ELSE dict[k]]

\* one freshly constructed TicTacToe(), held under the key "group"
Init ==
    /\ games = [c \in {"group"} |-> TicTacToe(1)]
    /\ call = [op |-> "init"]
    /\ instances = 1

\* game.make_move(row, col, player_cell) with any integers; the call is
\* remembered by its outcome and by whether it addressed the board's range 0..2
MakeMoveAny(c, row, col, player_cell) ==
    /\ c \in DOMAIN games
    /\ LET res == make_move(games[c], row, col, player_cell)
       IN  /\ games' = Store(games, c, res.self)
           /\ call' = [op |-> "make_move",
                       in_range |-> (row \in Idx /\ col \in Idx),
                       ret |-> res.ret, raised |-> res.raised]
    /\ UNCHANGED instances

\* game.make_move(row, col, player_cell) within the board; the call is
\* remembered with its arguments
MakeMoveCall(c, row, col, player_cell) ==
    /\ c \in DOMAIN games
    /\ LET res == make_move(games[c], row, col, player_cell)
       IN  /\ games' = Store(games, c, res.self)
           /\ call' = [op |-> "make_move", row |-> row, col |-> col,
                       player_cell |-> player_cell,
                       ret |-> res.ret, raised |-> res.raised]
    /\ UNCHANGED instances

\* bot_move plays the cell it has chosen instead of only returning it
BotMoveCall_Plays(c) ==
    /\ c \in DOMAIN games
    /\ \E ret \in bot_move(games[c]) :
           /\ call' = [op |-> "bot_move", ret |-> ret]
           /\ games' = IF ret = None THEN games
                        ELSE Store(games, c, make_move(games[c], ret[1], ret[2], O).self)
    /\ UNCHANGED instances

\* game.bot_move(): returns a cell or None, writes nothing
BotMoveCall(c) ==
    /\ c \in DOMAIN games
    /\ \E ret \in bot_move(games[c]) :
           call' = [op |-> "bot_move", ret |-> ret]
    /\ UNCHANGED <<games, instances>>

Next ==
    \E c \in Chats :
        \/ \E row \in Args, col \in Args, player_cell \in Cell :
               MakeMoveAny(c, row, col, player_cell)
        \/ BotMoveCall(c)

Spec == Init /\ [][Next]_vars

\* The players keep submitting valid moves: while the game runs, a call of
\* make_move on an empty cell with the mark whose turn it is comes eventually.
ValidMove(c) ==
    /\ c \in DOMAIN games
    /\ ~games[c].game_over
    /\ \E row \in Idx, col \in Idx :
           /\ games[c].board[row][col] = EMPTY
           /\ MakeMoveAny(c, row, col, games[c].current_turn)

SpecLive == Init /\ [][Next]_vars /\ WF_vars(\E c \in Chats : ValidMove(c))

NextCalls ==
    \E c \in Chats :
        \/ \E row \in Idx, col \in Idx, player_cell \in Cell :
               MakeMoveCall(c, row, col, player_cell)
        \/ BotMoveCall(c)

SpecCalls == Init /\ [][NextCalls]_vars


\* ---------------------------------------------------------------- bot.py
\* bounds of the chat model: users 1..NumUsers write in the group chat
NumUsers == 2

\* a Telegram user; even ids have no @username
TelegramUser(i) ==
    [id |-> i,
     username |-> IF i % 2 = 1 THEN "user" \o ToString(i) ELSE "",
     first_name |-> "Name" \o ToString(i)]
Users == {TelegramUser(i) : i \in 1 .. NumUsers}

\* update.effective_chat.type
chat_type(c) == IF c = "private" THEN "private" ELSE "group"
\* who can send updates in a chat: a private chat has one user
Senders(c) == IF chat_type(c) = "private" THEN {TelegramUser(1)} ELSE Users

SYMBOLS == [EMPTY |-> ".", X |-> "x", O |-> "o"]

get_display_name(user) ==
    IF user.username # "" THEN "@" \o user.username ELSE user.first_name

status_text(game) ==
    IF game.game_over
    THEN IF get_winner_player(game) # None
         THEN [kind |-> "wins",
               symbol |-> SYMBOLS[get_winner_player(game).symbol],
               username |-> get_winner_player(game).username]
         ELSE [kind |-> "draw"]
    ELSE IF get_current_player(game) # None
         THEN [kind |-> "turn",
               symbol |-> SYMBOLS[get_current_player(game).symbol],
               username |-> get_current_player(game).username]
         ELSE [kind |-> "waiting"]

\* the game both tictactoe_command and the play_again branch construct
new_game(id, user, is_private) ==
    LET game == [TicTacToe(id) EXCEPT
                    !.player_x = Player(user.id, get_display_name(user), X)]
    IN  IF is_private
        THEN [game EXCEPT !.player_o = Player(0, "Bot", O), !.is_vs_bot = TRUE]
        ELSE game

\* the message sent or edited when a game starts
start_text(game, is_private) ==
    IF is_private THEN status_text(game)
    ELSE [kind |-> "invite", username |-> game.player_x.username]

Handled(op, answer, text) == [op |-> op, answer |-> answer, text |-> text]

\* /tictactoe
tictactoe_command(c, user) ==
    /\ instances < MaxInstances
    /\ LET game == new_game(instances + 1, user, chat_type(c) = "private")
       IN  /\ games' = Store(games, c, game)
           /\ call' = Handled("tictactoe", "", start_text(game, chat_type(c) = "private"))
    /\ instances' = instances + 1

\* the play_again branch, with the old object reset in place of a new one
callback_play_again_Reset(c, user) ==
    /\ instances < MaxInstances
    /\ LET id == IF c \in DOMAIN games THEN games[c].id ELSE instances + 1
           game == new_game(id, user, chat_type(c) = "private")
       IN  /\ games' = Store(games, c, game)
           /\ call' = Handled("play_again", "", start_text(game, chat_type(c) = "private"))
    /\ instances' = instances + 1

\* callback "play_again"
callback_play_again(c, user) ==
    /\ instances < MaxInstances
    /\ LET game == new_game(instances + 1, user, chat_type(c) = "private")
       IN  /\ games' = Store(games, c, game)
           /\ call' = Handled("play_again", "", start_text(game, chat_type(c) = "private"))
    /\ instances' = instances + 1

\* the join_o branch without the test for an existing second player
callback_join_o_Rebind(c, user) ==
    /\ IF c \notin DOMAIN games
       THEN /\ call' = Handled("join_o", "No active game", None)
            /\ UNCHANGED games
       ELSE IF user.id = games[c].player_x.user_id
       THEN /\ call' = Handled("join_o", "You can't play against yourself!", None)
            /\ UNCHANGED games
       ELSE LET game == [games[c] EXCEPT
                            !.player_o = Player(user.id, get_display_name(user), O)]
            IN  /\ games' = Store(games, c, game)
                /\ call' = Handled("join_o", "You joined", status_text(game))
    /\ UNCHANGED instances

\* callback "join_o"
callback_join_o(c, user) ==
    /\ IF c \notin DOMAIN games
       THEN /\ call' = Handled("join_o", "No active game", None)
            /\ UNCHANGED games
       ELSE IF games[c].player_o # None
       THEN /\ call' = Handled("join_o", "Game already has two players!", None)
            /\ UNCHANGED games
       ELSE IF user.id = games[c].player_x.user_id
       THEN /\ call' = Handled("join_o", "You can't play against yourself!", None)
            /\ UNCHANGED games
       ELSE LET game == [games[c] EXCEPT
                            !.player_o = Player(user.id, get_display_name(user), O)]
            IN  /\ games' = Store(games, c, game)
                /\ call' = Handled("join_o", "You joined", status_text(game))
    /\ UNCHANGED instances

\* callback "wait_<row>_<col>"
callback_wait(c, user) ==
    /\ call' = Handled("wait", "Waiting for an opponent to join...", None)
    /\ UNCHANGED <<games, instances>>

\* callback "noop_<row>_<col>"
callback_noop(c, user) ==
    /\ call' = Handled("noop", "", None)
    /\ UNCHANGED <<games, instances>>

\* the move_ branch without the test for a missing second player: player O
\* is only compared when there is one
callback_move_NoWaitCheck(c, user, row, col) ==
    /\ IF c \notin DOMAIN games
       THEN /\ call' = Handled("move", "No active game", None)
            /\ UNCHANGED games
       ELSE IF /\ user.id # games[c].player_x.user_id
               /\ (games[c].player_o = None \/ user.id # games[c].player_o.user_id)
       THEN /\ call' = Handled("move", "You're not in this game!", None)
            /\ UNCHANGED games
       ELSE
         LET game == games[c]
             player_cell == IF user.id = game.player_x.user_id THEN X ELSE O
             moved == make_move(game, row, col, player_cell)
         IN  IF player_cell # game.current_turn
             THEN /\ call' = Handled("move", "Not your turn!", None)
                  /\ UNCHANGED games
             ELSE IF ~moved.ret
             THEN /\ call' = Handled("move", "Invalid move!", None)
                  /\ games' = Store(games, c, moved.self)
             ELSE IF moved.self.game_over
             THEN /\ call' = Handled("move", "", status_text(moved.self))
                  /\ games' = Store(games, c, moved.self)
             ELSE IF moved.self.is_vs_bot /\ moved.self.current_turn = O
             THEN \E bot_pos \in bot_move(moved.self) :
                      LET after == IF bot_pos # None
                                   THEN make_move(moved.self, bot_pos[1], bot_pos[2], O).self
                                   ELSE moved.self
                      IN  /\ call' = Handled("move", "", status_text(after))
                          /\ games' = Store(games, c, after)
             ELSE /\ call' = Handled("move", "", status_text(moved.self))
                  /\ games' = Store(games, c, moved.self)
    /\ UNCHANGED instances

\* the move_ branch without the bot's turn
callback_move_NoBotTurn(c, user, row, col) ==
    /\ IF c \notin DOMAIN games
       THEN /\ call' = Handled("move", "No active game", None)
            /\ UNCHANGED games
       ELSE IF games[c].player_o = None
       THEN /\ call' = Handled("move", "Waiting for an opponent to join...", None)
            /\ UNCHANGED games
       ELSE IF user.id # games[c].player_x.user_id /\ user.id # games[c].player_o.user_id
       THEN /\ call' = Handled("move", "You're not in this game!", None)
            /\ UNCHANGED games
       ELSE
         LET game == games[c]
             player_cell == IF user.id = game.player_x.user_id THEN X ELSE O
             moved == make_move(game, row, col, player_cell)
         IN  IF player_cell # game.current_turn
             THEN /\ call' = Handled("move", "Not your turn!", None)
                  /\ UNCHANGED games
             ELSE IF ~moved.ret
             THEN /\ call' = Handled("move", "Invalid move!", None)
                  /\ games' = Store(games, c, moved.self)
             ELSE /\ call' = Handled("move", "", status_text(moved.self))
                  /\ games' = Store(games, c, moved.self)
    /\ UNCHANGED instances

\* callback "move_<row>_<col>"
callback_move(c, user, row, col) ==
    /\ IF c \notin DOMAIN games
       THEN /\ call' = Handled("move", "No active game", None)
            /\ UNCHANGED games
       ELSE IF games[c].player_o = None
       THEN /\ call' = Handled("move", "Waiting for an opponent to join...", None)
            /\ UNCHANGED games
       ELSE IF user.id # games[c].player_x.user_id /\ user.id # games[c].player_o.user_id
       THEN /\ call' = Handled("move", "You're not in this game!", None)
            /\ UNCHANGED games
       ELSE
         LET game == games[c]
             player_cell == IF user.id = game.player_x.user_id THEN X ELSE O
             moved == make_move(game, row, col, player_cell)
         IN  IF player_cell # game.current_turn
             THEN /\ call' = Handled("move", "Not your turn!", None)
                  /\ UNCHANGED games
             ELSE IF ~moved.ret
             THEN /\ call' = Handled("move", "Invalid move!", None)
                  /\ games' = Store(games, c, moved.self)
             ELSE IF moved.self.game_over
             THEN /\ call' = Handled("move", "", status_text(moved.self))
                  /\ games' = Store(games, c, moved.self)
             ELSE IF moved.self.is_vs_bot /\ moved.self.current_turn = O
             THEN \E bot_pos \in bot_move(moved.self) :
                      LET after == IF bot_pos # None
                                   THEN make_move(moved.self, bot_pos[1], bot_pos[2], O).self
                                   ELSE moved.self
                      IN  /\ call' = Handled("move", "", status_text(after))
                          /\ games' = Store(games, c, after)
             ELSE /\ call' = Handled("move", "", status_text(moved.self))
                  /\ games' = Store(games, c, moved.self)
    /\ UNCHANGED instances

\* games = {} at import
InitBot ==
    /\ games = << >>
    /\ call = [op |-> "init"]
    /\ instances = 0

\* all updates of one behaviour come from one chat: the chats an update can
\* come from are those that leave no other chat with a registered game
SessionChats == {c \in Chats : DOMAIN games \subseteq {c}}

\* an update from user in chat c can arrive
Update(c, user) == c \in SessionChats /\ user \in Senders(c)

NextBot ==
    \E c \in Chats, user \in Users :
        \/ Update(c, user) /\ tictactoe_command(c, user)
        \/ Update(c, user) /\ callback_play_again(c, user)
        \/ Update(c, user) /\ callback_join_o(c, user)
        \/ Update(c, user) /\ callback_wait(c, user)
        \/ Update(c, user) /\ callback_noop(c, user)
        \/ Update(c, user) /\ \E row \in Idx, col \in Idx : callback_move(c, user, row, col)

SpecBot == InitBot /\ [][NextBot]_vars

\* Several chats at once: every chat's updates arrive at any time, except
\* that board buttons are pressed in a chat only while the boards of all
\* other chats are untouched, and only the buttons of the rows PressedRows.
Arrives(c, user) == user \in Senders(c)

PressedRows == {0, 1}

Quiet(c) ==
    \A d \in DOMAIN games \ {c} :
        \A row \in Idx, col \in Idx : games[d].board[row][col] = EMPTY

NextChats ==
    \E c \in Chats, user \in Users :
        \/ Arrives(c, user) /\ tictactoe_command(c, user)
        \/ Arrives(c, user) /\ callback_play_again(c, user)
        \/ Arrives(c, user) /\ callback_join_o(c, user)
        \/ Arrives(c, user) /\ callback_wait(c, user)
        \/ Arrives(c, user) /\ callback_noop(c, user)
        \/ Arrives(c, user) /\ Quiet(c)
               /\ \E row \in PressedRows, col \in Idx : callback_move(c, user, row, col)

SpecChats == InitBot /\ [][NextChats]_vars

\* ================================================================ claims
\* The eight winning lines as sets of cells, written out from the rules of the
\* game (three rows, three columns, two diagonals) and numbered rows
\* top-to-bottom, columns left-to-right, main diagonal, anti-diagonal.
Line(k) ==
    IF k <= 3 THEN {<<k - 1, c>> : c \in Idx}
    ELSE IF k <= 6 THEN {<<r, k - 4>> : r \in Idx}
    ELSE IF k = 7 THEN {<<i, i>> : i \in Idx}
    ELSE {<<i, 2 - i>> : i \in Idx}

Cells == Idx \X Idx
Marked(board, mark) == {p \in Cells : board[p[1]][p[2]] = mark}
HasLine(board, mark) == \E k \in 1 .. 8 : Line(k) \subseteq Marked(board, mark)
AnyLine(board) == HasLine(board, X) \/ HasLine(board, O)
Full(board) == Marked(board, EMPTY) = {}
\* line k holds two cells of mark and one empty cell
Threat(board, k, mark) ==
    /\ Cardinality(Line(k) \cap Marked(board, mark)) = 2
    /\ Cardinality(Line(k) \cap Marked(board, EMPTY)) = 1
FirstThreat(board, mark) ==
    CHOOSE k \in 1 .. 8 :
        Threat(board, k, mark) /\ \A i \in 1 .. (k - 1) : ~Threat(board, i, mark)
ThirdCell(board, k) == CHOOSE p \in Line(k) : board[p[1]][p[2]] = EMPTY

Rejected(c) == c.op = "make_move" /\ c.raised = NoneCell /\ c.ret = FALSE
Accepted(c) == c.op = "make_move" /\ c.raised = NoneCell /\ c.ret = TRUE

\* C1: on a terminal game every make_move call, whatever its row, column and
\* mark (rows and columns outside 0..2 included), returns False without
\* raising, and the game object is left as it was.
C1_TerminalRejects ==
    [][\A c \in DOMAIN games :
          (games[c].game_over /\ call'.op = "make_move")
              => (Rejected(call') /\ games'[c] = games[c])]_vars

\* a terminal game has just rejected a call whose row or column is outside 0..2
C1_Witness ==
    \E c \in DOMAIN games :
        games[c].game_over /\ Rejected(call) /\ ~call.in_range

\* C2: an accepted move leaves the game terminal with a winner exactly when
\* some winning line holds three equal marks after it, and terminal without a
\* winner exactly when the board is full and no line holds three equal marks.
C2_WinDrawIff ==
    [][\A c \in DOMAIN games :
          Accepted(call') =>
              LET g == games'[c]
              IN  /\ (g.game_over /\ g.winner # NoneCell) <=> AnyLine(g.board)
                  /\ (g.game_over /\ g.winner = NoneCell)
                         <=> (Full(g.board) /\ ~AnyLine(g.board))]_vars

\* the ninth move was accepted and completed a line: a win on a full board
C2_Witness ==
    \E c \in DOMAIN games :
        /\ Accepted(call) /\ Full(games[c].board) /\ AnyLine(games[c].board)
        /\ games[c].game_over /\ games[c].winner = X

\* C3: make_move on a cell that is not empty returns False and leaves the
\* board, the turn, the terminal flag and the winner unchanged.
C3_OccupiedRejected ==
    [][\A c \in DOMAIN games :
          (call'.op = "make_move"
             /\ games[c].board[call'.row][call'.col] # EMPTY)
              => (Rejected(call') /\ games'[c] = games[c])]_vars

\* a running game has just rejected the mover's own mark (here O) on an
\* occupied cell: the occupied cell is the only reason left to reject
C3_Witness ==
    \E c \in DOMAIN games :
        /\ Rejected(call) /\ ~games[c].game_over
        /\ games[c].board[call.row][call.col] # EMPTY
        /\ call.player_cell = O /\ games[c].current_turn = O

\* C4: in a running game, make_move on an empty cell with a mark other than
\* the current turn's (the other player's, or EMPTY) returns False and
\* changes nothing.
C4_WrongMarkRejected ==
    [][\A c \in DOMAIN games :
          (call'.op = "make_move" /\ ~games[c].game_over
             /\ games[c].board[call'.row][call'.col] = EMPTY
             /\ call'.player_cell # games[c].current_turn)
              => (Rejected(call') /\ games'[c] = games[c])]_vars

\* a running game has just rejected the EMPTY mark on an empty cell
C4_Witness ==
    \E c \in DOMAIN games :
        /\ Rejected(call) /\ ~games[c].game_over
        /\ games[c].board[call.row][call.col] = EMPTY
        /\ call.player_cell = EMPTY

\* C5: the number of X cells minus the number of O cells is 0 or 1.
C5_CountDifference ==
    \A c \in DOMAIN games :
        Cardinality(Marked(games[c].board, X))
            - Cardinality(Marked(games[c].board, O)) \in {0, 1}

\* five X against four O, reached through a call that wrapped a negative index
C5_Witness ==
    \E c \in DOMAIN games :
        /\ Cardinality(Marked(games[c].board, X)) = 5
        /\ Cardinality(Marked(games[c].board, O)) = 4
        /\ Accepted(call) /\ ~call.in_range

\* C6: once game_over is true on a game object it stays true for as long as
\* that object is the chat's game, whatever handler runs.
C6_TerminalStays ==
    [][\A c \in DOMAIN games :
          (games[c].game_over /\ c \in DOMAIN games' /\ games'[c].id = games[c].id)
              => games'[c].game_over]_vars

\* a move callback from a stale message has just been handled on a terminal game
C6_Witness ==
    \E c \in DOMAIN games :
        games[c].game_over /\ call.op = "move" /\ call.answer = "Invalid move!"

\* C7: a winner is recorded only on a terminal game with a line fully held by
\* that mark; a terminal game without any full line has no winner and a full
\* board.
C7_WinnerConsistent ==
    \A c \in DOMAIN games :
        LET g == games[c]
        IN  /\ g.winner \in {X, O} => (g.game_over /\ HasLine(g.board, g.winner))
            /\ (g.game_over /\ ~AnyLine(g.board))
                   => (g.winner = NoneCell /\ Full(g.board))

\* a draw: terminal, no line, reached by an accepted move
C7_Witness ==
    \E c \in DOMAIN games :
        games[c].game_over /\ ~AnyLine(games[c].board) /\ Accepted(call)

\* C8: an accepted move is made with the mark whose turn it is, which is X
\* when an even number of marks is on the board and O otherwise; it flips the
\* turn unless it ends the game, in which case the turn stays at the mover's
\* mark; a rejected call never changes the turn.
C8_Alternation ==
    [][\A c \in DOMAIN games :
          call'.op = "make_move" =>
              LET g == games[c]
                  h == games'[c]
                  n == Cardinality(Cells \ Marked(g.board, EMPTY))
              IN  IF Accepted(call')
                  THEN /\ call'.player_cell = g.current_turn
                       /\ call'.player_cell = (IF n % 2 = 0 THEN X ELSE O)
                       /\ h.current_turn =
                              IF h.game_over THEN call'.player_cell
                              ELSE IF call'.player_cell = X THEN O ELSE X
                  ELSE h.current_turn = g.current_turn]_vars

\* O has just made the move that ended the game, and the turn is still O's
C8_Witness ==
    \E c \in DOMAIN games :
        /\ Accepted(call) /\ call.player_cell = O
        /\ games[c].game_over /\ games[c].current_turn = O

\* C9: with O to move in a running game where some line holds two O and one
\* empty cell, bot_move returns the empty cell of the first such line, and
\* make_move with that cell and O ends the game with winner O.
C9_BotWins ==
    \A c \in DOMAIN games :
        LET g == games[c]
        IN  (call.op = "bot_move" /\ ~g.game_over /\ g.current_turn = O
               /\ (\E k \in 1 .. 8 : Threat(g.board, k, O)))
              => /\ call.ret = ThirdCell(g.board, FirstThreat(g.board, O))
                 /\ LET res == make_move(g, call.ret[1], call.ret[2], O)
                    IN  /\ res.ret = TRUE /\ res.raised = NoneCell
                        /\ res.self.game_over /\ res.self.winner = O

\* bot_move has answered on a board where O's only open pair is on the
\* anti-diagonal (the last line of the order) and X has an open pair as well
C9_Witness ==
    \E c \in DOMAIN games :
        /\ call.op = "bot_move" /\ ~games[c].game_over /\ games[c].current_turn = O
        /\ Threat(games[c].board, 8, O)
        /\ FirstThreat(games[c].board, O) = 8
        /\ \E k \in 1 .. 8 : Threat(games[c].board, k, X)

\* C10: with O to move in a running game where no line holds two O and an
\* empty cell but some line holds two X and one empty cell, bot_move returns
\* the empty cell of the first such X line, and once O has played it that
\* line holds an O.
C10_BotBlocks ==
    \A c \in DOMAIN games :
        LET g == games[c]
        IN  (call.op = "bot_move" /\ ~g.game_over /\ g.current_turn = O
               /\ (\A k \in 1 .. 8 : ~Threat(g.board, k, O))
               /\ (\E k \in 1 .. 8 : Threat(g.board, k, X)))
              => LET k == FirstThreat(g.board, X)
                     res == make_move(g, call.ret[1], call.ret[2], O)
                 IN  /\ call.ret = ThirdCell(g.board, k)
                     /\ res.ret = TRUE /\ res.raised = NoneCell
                     /\ Line(k) \cap Marked(res.self.board, O) # {}
                     /\ ~Threat(res.self.board, k, X)

\* bot_move has answered on a board where X has two open pairs and O none
C10_Witness ==
    \E c \in DOMAIN games :
        /\ call.op = "bot_move" /\ ~games[c].game_over /\ games[c].current_turn = O
        /\ (\A k \in 1 .. 8 : ~Threat(games[c].board, k, O))
        /\ \E k, l \in 1 .. 8 :
               k # l /\ Threat(games[c].board, k, X) /\ Threat(games[c].board, l, X)

\* rules 1 and 2 of bot_move do not apply: neither mark has an open pair
NoOpenPair(board) ==
    \A k \in 1 .. 8 : ~Threat(board, k, O) /\ ~Threat(board, k, X)
CornerCells == {<<0, 0>>, <<0, 2>>, <<2, 0>>, <<2, 2>>}
EdgeCells == {<<0, 1>>, <<1, 0>>, <<1, 2>>, <<2, 1>>}
OToMove(g) == ~g.game_over /\ g.current_turn = O

\* C11: with O to move in a running game where neither mark has a line with
\* two of its marks and an empty third cell, and the center is empty, bot_move
\* returns (1,1).
C11_BotCenter ==
    \A c \in DOMAIN games :
        LET g == games[c]
        IN  (OToMove(g) /\ NoOpenPair(g.board) /\ g.board[1][1] = EMPTY)
              => /\ bot_move(g) = {<<1, 1>>}
                 /\ call.op = "bot_move" => call.ret = <<1, 1>>

\* bot_move has answered (1,1) on a board with three marks, no open pair and
\* an empty corner
C11_Witness ==
    \E c \in DOMAIN games :
        /\ call.op = "bot_move" /\ call.ret = <<1, 1>>
        /\ OToMove(games[c]) /\ NoOpenPair(games[c].board)
        /\ Cardinality(Cells \ Marked(games[c].board, EMPTY)) = 3
        /\ CornerCells \cap Marked(games[c].board, EMPTY) # {}

\* C14: a bot_move call leaves the game object as it was, whatever it returns;
\* the object changes only in a step that is an accepted make_move call.
C14_BotMoveReadOnly ==
    [][/\ call'.op = "bot_move" => games' = games
       /\ games' # games => Accepted(call')]_vars

\* bot_move has returned a cell, and that cell is still empty
C14_Witness ==
    \E c \in DOMAIN games :
        /\ call.op = "bot_move" /\ call.ret # None
        /\ games[c].board[call.ret[1]][call.ret[2]] = EMPTY

\* C15: with O to move in a running game where neither mark has an open pair
\* and the center is occupied, the cells bot_move can return are exactly the
\* empty corners when there is one, and exactly the empty edges when all four
\* corners are occupied.
C15_BotCornerEdge ==
    \A c \in DOMAIN games :
        LET g == games[c]
            emptyCorners == CornerCells \cap Marked(g.board, EMPTY)
            emptyEdges == EdgeCells \cap Marked(g.board, EMPTY)
        IN  (OToMove(g) /\ NoOpenPair(g.board) /\ g.board[1][1] # EMPTY)
              => /\ bot_move(g) = IF emptyCorners # {} THEN emptyCorners ELSE emptyEdges
                 /\ call.op = "bot_move"
                       => call.ret \in IF emptyCorners # {} THEN emptyCorners
                                       ELSE emptyEdges

\* bot_move has answered with the last edge of the list, (2,1), on a board
\* with all corners and the center occupied, no open pair, and the first
\* edge, (0,1), empty as well
C15_Witness ==
    \E c \in DOMAIN games :
        /\ call.op = "bot_move" /\ call.ret = <<2, 1>>
        /\ OToMove(games[c]) /\ NoOpenPair(games[c].board)
        /\ games[c].board[1][1] # EMPTY
        /\ CornerCells \cap Marked(games[c].board, EMPTY) = {}
        /\ games[c].board[0][1] = EMPTY

\* C16: with O to move in a running game every value bot_move can return is
\* an empty cell, and make_move with it and O is accepted; bot_move returns
\* None only on a terminal game or when it is not O's turn.
C16_BotMovePlayable ==
    \A c \in DOMAIN games :
        LET g == games[c]
        IN  /\ \A m \in bot_move(g) :
                  IF OToMove(g)
                  THEN /\ m \in Marked(g.board, EMPTY)
                       /\ make_move(g, m[1], m[2], O).ret = TRUE
                       /\ make_move(g, m[1], m[2], O).raised = NoneCell
                  ELSE m = None
            /\ call.op = "bot_move" => call.ret \in bot_move(g)

\* bot_move has returned an edge cell with O to move: rules 1 and 2 reach the edges
C16_Witness ==
    \E c \in DOMAIN games :
        /\ call.op = "bot_move" /\ call.ret \in EdgeCells
        /\ OToMove(games[c])

\* C12: a join_o callback on a chat whose game already has player O bound
\* is answered "Game already has two players!" and changes nothing, in bot
\* games as well.
C12_JoinRejected ==
    [][\A c \in DOMAIN games :
          (call'.op = "join_o" /\ games[c].player_o # None)
              => (call'.answer = "Game already has two players!" /\ games' = games)]_vars

\* a join has just been rejected on a bot game, whose player O is the bot
C12_Witness ==
    \E c \in DOMAIN games :
        /\ call.op = "join_o" /\ call.answer = "Game already has two players!"
        /\ games[c].is_vs_bot /\ games[c].player_o.user_id = 0

\* C17: a game whose player O is unassigned has an empty board, X to move and
\* is not terminal.
C17_NoMoveWhileWaiting ==
    \A c \in DOMAIN games :
        games[c].player_o = None
            => /\ Marked(games[c].board, EMPTY) = Cells
               /\ games[c].current_turn = X
               /\ ~games[c].game_over

\* a move callback from a stale message has just been turned away on a game
\* that waits for its second player, the second game of the chat
C17_Witness ==
    \E c \in DOMAIN games :
        /\ games[c].player_o = None /\ games[c].id > 1
        /\ call.op = "move" /\ call.answer = "Waiting for an opponent to join..."

CompletingCells(board, mark) ==
    {ThirdCell(board, k) : k \in {j \in 1 .. 8 : Threat(board, j, mark)}}
XWinsNext(g) ==
    \E r, q \in Idx : make_move(g, r, q, X).self.winner = X

\* C19: in a bot game, whenever after the bot's answer X can win with its
\* next move, then at the bot's turn (after X's move, before the answer) O
\* had no completing cell and X had at least two different completing cells;
\* and X wins only by one move from such a resting state.
C19_XWinsByFork ==
    [][\A c \in DOMAIN games :
          (/\ games[c].is_vs_bot /\ c \in DOMAIN games'
           /\ games'[c] # games[c] /\ games'[c].id = games[c].id)
            => /\ \A row, col \in Idx :
                    LET mid == make_move(games[c], row, col, X)
                    IN  (/\ mid.ret /\ ~mid.self.game_over
                         /\ \E bot_pos \in bot_move(mid.self) :
                                /\ bot_pos # None
                                /\ games'[c] = make_move(mid.self, bot_pos[1],
                                                         bot_pos[2], O).self
                         /\ XWinsNext(games'[c]))
                          => /\ CompletingCells(mid.self.board, O) = {}
                             /\ Cardinality(CompletingCells(mid.self.board, X)) >= 2
               /\ (games'[c].winner = X /\ games[c].winner # X)
                      => \E r, q \in Idx : games'[c] = make_move(games[c], r, q, X).self]_vars

\* X has won a bot game
C19_Witness ==
    \E c \in DOMAIN games :
        games[c].is_vs_bot /\ games[c].winner = X /\ call.op = "move"

\* a game as /tictactoe and play_again register it for user in chat c
FreshGame(g, c, user) ==
    /\ \A row \in Idx, col \in Idx : g.board[row][col] = EMPTY
    /\ g.current_turn = X /\ ~g.game_over /\ g.winner = NoneCell
    /\ g.player_x # None /\ g.player_x.user_id = user.id
    /\ (g.player_o # None) <=> (chat_type(c) = "private")
    /\ g.is_vs_bot <=> (chat_type(c) = "private")

\* C13: no two chats share a game; a /tictactoe command or a play_again
\* callback of user in chat c leaves chat c with a new, fresh game whose
\* player X is user and whose player O is bound only in a private chat,
\* whatever game the chat had before, and leaves the games of all other chats
\* as they were.
C13_FreshGamePerChat ==
    [][/\ \A c, d \in DOMAIN games' : c # d => games'[c].id # games'[d].id
       /\ \A c \in Chats, user \in Users :
            (Arrives(c, user) /\ call'.op \in {"tictactoe", "play_again"}
               /\ (tictactoe_command(c, user) \/ callback_play_again(c, user)))
              => /\ DOMAIN games' = DOMAIN games \cup {c}
                 /\ FreshGame(games'[c], c, user)
                 /\ \A d \in DOMAIN games : games'[c].id # games[d].id
                 /\ \A d \in DOMAIN games \ {c} : games'[d] = games[d]]_vars

\* a game has just been started in one chat while another chat's game is
\* terminal with marks on its board
C13_Witness ==
    \E c, d \in DOMAIN games :
        /\ c # d /\ call.op = "play_again"
        /\ games[c].id = instances /\ games[c].id > games[d].id
        /\ games[d].game_over /\ games[d].winner = X

NonEmpty(g) == Cardinality(Cells \ Marked(g.board, EMPTY))

\* C20: every accepted move adds exactly one non-empty cell and a rejected
\* call none, so the marks on the board count the accepted moves; a terminal
\* game has at least five marks and a board with nine marks is terminal; a
\* move on an empty cell with the current turn's mark is accepted in a running
\* game; and when valid moves keep coming the game eventually is terminal.
C20_Terminates ==
    /\ [][\A c \in DOMAIN games :
            NonEmpty(games'[c]) =
                NonEmpty(games[c]) + (IF Accepted(call') THEN 1 ELSE 0)]_vars
    /\ [](\A c \in DOMAIN games :
            /\ games[c].game_over => NonEmpty(games[c]) >= 5
            /\ NonEmpty(games[c]) = 9 => games[c].game_over
            /\ \A row \in Idx, col \in Idx :
                   (~games[c].game_over /\ games[c].board[row][col] = EMPTY)
                       => make_move(games[c], row, col, games[c].current_turn).ret)
    /\ <>(\A c \in DOMAIN games : games[c].game_over)

\* a game ended by its fifth accepted move
C20_Witness ==
    \E c \in DOMAIN games :
        games[c].game_over /\ NonEmpty(games[c]) = 5 /\ Accepted(call)

====
